---- MODULE Spec2Model ----
(***************************************************************************)
(* A model of md2epub's epublib: the book aggregate (EpubBook), the item   *)
(* classes, and the archive writer (EpubWriter) with its package-document, *)
(* navigation-control (NCX) and navigation-document (nav) renderers.       *)
(*                                                                         *)
(* Conventions.                                                            *)
(*  - Python str/bytes values are TLA+ strings; b'' is "".                 *)
(*  - A file name is a record [dir, base, ext], so that posixpath.splitext *)
(*    and os.path.dirname are projections; PathStr gives the string.       *)
(*  - An XML document is kept as the record of the elements the code puts  *)
(*    into it, in document order; serialisation (etree.tostring) is not    *)
(*    modelled.                                                            *)
(*  - The writer's options are the defaults of EpubWriter.__init__, which  *)
(*    is how create_epub constructs it (EpubWriter(book)).                 *)
(***************************************************************************)
EXTENDS Integers, Sequences, FiniteSets, TLC

VARIABLES
    items,      \* EpubBook.items
    id_html,    \* EpubBook._id_html
    id_image,   \* EpubBook._id_image
    id_static,  \* EpubBook._id_static
    pages,      \* EpubBook.pages
    book_title, \* EpubBook.title
    metadata,   \* EpubBook.metadata
    spine,      \* EpubBook.spine
    guide,      \* EpubBook.guide
    toc,        \* EpubBook.toc
    zip,        \* EpubWriter._zipfile: the entries written so far, in order
    zipOpen,    \* whether the ZipFile handle is open
    pc,         \* where the caller is: building the book, or a step of write()
    wi,         \* _write_items: index of the next item of book.items
    calls,      \* history: the items as they were passed to add_item
    mcalls,     \* history: the calls on the metadata registry and the reads of
                \* an item's type, with results
    disk,       \* what create_epub finds on disk: the manifest and the files
    chapters,   \* create_epub: the chapter generators parse() returned
    cpc         \* create_epub: where it is ("lib": the library used directly)

vars == <<items, id_html, id_image, id_static, pages, book_title, metadata,
          spine, guide, toc, zip, zipOpen, pc, wi, calls, mcalls, disk,
          chapters, cpc>>

(***************************************************************************)
(* Bounds of the model.                                                    *)
(***************************************************************************)
MaxItems == 3
MaxSpine == 2
MaxGuide == 1
MaxToc == 2

None == "<None>"

\* others=None of add_metadata, kept a record as every attribute map is
NoOthers == [others |-> None]

\* no create_epub run: the library is driven directly
NoDisk == [manifest |-> None]

(***************************************************************************)
(* File names.                                                             *)
(***************************************************************************)
FN(dir, base, ext) == [dir |-> dir, base |-> base, ext |-> ext]

PathStr(fn) ==
    (IF fn.dir = "" THEN "" ELSE fn.dir \o "/") \o fn.base \o fn.ext

\* mimetypes.guess_type after guess_type's add_type('.xhtml'): (type, encoding)
MimeGuess(ext) ==
    CASE ext = ".xhtml" -> <<"application/xhtml+xml", None>>
      [] ext = ".png"   -> <<"image/png", None>>
      [] ext = ".jpg"   -> <<"image/jpeg", None>>
      [] ext = ".css"   -> <<"text/css", None>>
      [] ext = ".smil"  -> <<"application/smil+xml", None>>
      [] ext = ".svgz"  -> <<"image/svg+xml", "gzip">>
      [] OTHER          -> <<None, None>>

guess_type(fn) == MimeGuess(fn.ext)

(***************************************************************************)
(* Item classes and constructors (items.py).                               *)
(***************************************************************************)
HtmlClasses == {"EpubHtml", "EpubCoverHtml", "EpubNav"}

IsEpubHtml(item) == item.cls \in HtmlClasses
IsEpubImage(item) == item.cls = "EpubImage"
IsEpubNcx(item) == item.cls = "EpubNcx"
IsEpubNav(item) == item.cls = "EpubNav"
IsEpubCover(item) == item.cls = "EpubCover"

\* bytes content: raw is the stored byte string ("" is b''), els the child
\* elements of <body> that lxml's recovering HTML parser finds in it
Content(raw, els) == [raw |-> raw, els |-> els]

NoContent == Content("", <<>>)

NewItem(cls, uid, fn, mt, content, manifest, linear, title, image_name) ==
    [cls |-> cls, uid |-> uid, file_name |-> fn, media_type |-> mt,
     content |-> content, manifest |-> manifest, is_linear |-> linear,
     title |-> title, pages |-> <<>>, image_name |-> image_name]

EpubItem(uid, fn, mt, content, manifest) ==
    NewItem("EpubItem", uid, fn, mt, content, manifest, TRUE, "", "")

EpubNcx(uid, fn) ==
    NewItem("EpubNcx", uid, fn, "application/x-dtbncx+xml", NoContent, TRUE,
            TRUE, "", "")

EpubCover(uid, fn) ==
    NewItem("EpubCover", uid, fn, "", NoContent, TRUE, TRUE, "", "")

EpubHtml(uid, fn, mt, content, title) ==
    NewItem("EpubHtml", uid, fn, mt, content, TRUE, TRUE, title, "")

EpubCoverHtml(uid, fn, image_name, title) ==
    NewItem("EpubCoverHtml", uid, fn, "", NoContent, TRUE, FALSE, title,
            image_name)

EpubNav(uid, fn, mt, title) ==
    NewItem("EpubNav", uid, fn, mt, NoContent, TRUE, TRUE, title, "")

EpubImage(uid, fn, mt, content) ==
    NewItem("EpubImage", uid, fn, mt, content, TRUE, TRUE, "", "")

(***************************************************************************)
(* The metadata registry: namespace -> name -> list of <<value, others>>.  *)
(***************************************************************************)
NS_OPF == "http://www.idpf.org/2007/opf"
NS_DC == "http://purl.org/dc/elements/1.1/"

NAMESPACES(ns) ==
    CASE ns = "OPF" -> NS_OPF
      [] ns = "DC"  -> NS_DC
      [] OTHER      -> ns

add_metadata(md, namespace, name, value, others) ==
    LET ns == NAMESPACES(namespace)
        md1 == IF ns \in DOMAIN md THEN md
               ELSE [k \in DOMAIN md \cup {ns} |->
                        IF k = ns THEN <<>> ELSE md[k]]
        byName == md1[ns]
        old == IF name \in DOMAIN byName THEN byName[name] ELSE <<>>
        new == [k \in DOMAIN byName \cup {name} |->
                   IF k = name THEN Append(old, <<value, others>>)
                   ELSE byName[k]]
    IN  [md1 EXCEPT ![ns] = new]

EmptyDict == [k \in {} |-> <<>>]

(***************************************************************************)
(* EpubBook.add_item, as a function of the aggregate's fields.             *)
(***************************************************************************)
InferMediaType(item) ==
    IF item.media_type = ""
    THEN LET g == guess_type(item.file_name)
         IN  IF g[1] # None
             THEN IF g[2] # None THEN g[2] ELSE g[1]
             ELSE "application/octet-stream"
    ELSE item.media_type

\* add_item with the counter of the category advanced by every insertion
add_item_counting_all(b, item0) ==
    LET item == [item0 EXCEPT !.media_type = InferMediaType(item0)]
        uid == IF item.uid # "" THEN item.uid
               ELSE IF IsEpubHtml(item)
               THEN "chapter_" \o ToString(b.id_html)
               ELSE IF IsEpubImage(item)
               THEN "image_" \o ToString(b.id_image)
               ELSE "static_" \o ToString(b.id_static)
    IN  [b EXCEPT
           !.items = Append(@, [item EXCEPT !.uid = uid]),
           !.id_html = IF IsEpubHtml(item) THEN @ + 1 ELSE @,
           !.id_image = IF IsEpubImage(item) THEN @ + 1 ELSE @,
           !.id_static = IF ~IsEpubHtml(item) /\ ~IsEpubImage(item)
                         THEN @ + 1 ELSE @,
           !.pages = IF IsEpubHtml(item) /\ item.uid = ""
                     THEN @ \o item.pages ELSE @]

add_item(b, item0) ==
    LET item == [item0 EXCEPT !.media_type = InferMediaType(item0)]
    IN  IF item.uid = ""
        THEN IF IsEpubHtml(item)
             THEN [b EXCEPT
                     !.items = Append(@, [item EXCEPT
                                 !.uid = "chapter_" \o ToString(b.id_html)]),
                     !.id_html = @ + 1,
                     !.pages = @ \o item.pages]
             ELSE IF IsEpubImage(item)
             THEN [b EXCEPT
                     !.items = Append(@, [item EXCEPT
                                 !.uid = "image_" \o ToString(b.id_image)]),
                     !.id_image = @ + 1]
             ELSE [b EXCEPT
                     !.items = Append(@, [item EXCEPT
                                 !.uid = "static_" \o ToString(b.id_static)]),
                     !.id_static = @ + 1]
        ELSE [b EXCEPT !.items = Append(@, item)]

Book ==
    [items |-> items, id_html |-> id_html, id_image |-> id_image,
     id_static |-> id_static, pages |-> pages]

SetBook(b) ==
    /\ items' = b.items
    /\ id_html' = b.id_html
    /\ id_image' = b.id_image
    /\ id_static' = b.id_static
    /\ pages' = b.pages

\* EpubBook.get_item_with_id: the first item with that uid; HasItemWithId
\* is "the result is not None"
HasItemWithId(uid) == \E i \in 1..Len(items) : items[i].uid = uid

get_item_with_id(uid) ==
    items[CHOOSE i \in 1..Len(items) :
            /\ items[i].uid = uid
            /\ \A j \in 1..(i - 1) : items[j].uid # uid]

(***************************************************************************)
(* The state after EpubBook().                                             *)
(***************************************************************************)
Init ==
    /\ items = <<>>
    /\ id_html = 0
    /\ id_image = 0
    /\ id_static = 0
    /\ pages = <<>>
    /\ book_title = ""
    /\ metadata = add_metadata(EmptyDict, "OPF", "generator", "",
                     [name |-> "generator", content |-> "md2epub.epublib"])
    /\ spine = <<>>
    /\ guide = <<>>
    /\ toc = <<>>
    /\ zip = <<>>
    /\ zipOpen = FALSE
    /\ pc = "build"
    /\ wi = 0
    /\ calls = <<>>
    /\ mcalls = <<>>
    /\ disk = NoDisk
    /\ chapters = <<>>
    /\ cpc = "lib"

(***************************************************************************)
(* The caller's calls while it builds the book.                            *)
(***************************************************************************)
AddItem(item) ==
    /\ pc = "build"
    /\ Len(items) < MaxItems
    /\ SetBook(add_item(Book, item))
    /\ calls' = Append(calls, item)
    /\ UNCHANGED <<book_title, metadata, spine, guide, toc, zip, zipOpen, pc, wi,
                   disk, chapters, cpc, mcalls>>

SetCover(fn, create_page) ==
    /\ pc = "build"
    /\ Len(items) + (IF create_page THEN 2 ELSE 1) <= MaxItems
    /\ LET c == EpubCover("cover-img", fn)
           page == EpubCoverHtml("cover", FN("", "cover", ".xhtml"),
                                 PathStr(fn), "Cover")
           b1 == add_item(Book, c)
       IN  /\ SetBook(IF create_page THEN add_item(b1, page) ELSE b1)
           /\ calls' = IF create_page THEN calls \o <<c, page>>
                        ELSE Append(calls, c)
    /\ metadata' = add_metadata(metadata, None, "meta", "",
                      [name |-> "cover", content |-> "cover-img"])
    /\ UNCHANGED <<book_title, spine, guide, toc, zip, zipOpen, pc, wi,
                   disk, chapters, cpc, mcalls>>

(***************************************************************************)
(* TOC entries (book.toc). A leaf is an EpubHtml, a Link, or anything else *)
(* (a bare Section, a str such as create_epub's 'cover'); a subsection is  *)
(* a tuple (heading, entries) whose heading is an EpubHtml, a Link or a    *)
(* Section. href of an EpubHtml entry is its file_name.                    *)
(***************************************************************************)
TocHtml(uid, href, title) ==
    [t |-> "EpubHtml", uid |-> uid, href |-> href, title |-> title]

Link(href, title, uid) ==
    [t |-> "Link", uid |-> uid, href |-> href, title |-> title]

Section(title, href) ==
    [t |-> "Section", uid |-> "", href |-> href, title |-> title]

TocStr(s) == [t |-> "str", uid |-> "", href |-> "", title |-> s]

TocTuple(head, kids) == [t |-> "tuple", head |-> head, kids |-> kids]

TocOfItem(item) == TocHtml(item.uid, PathStr(item.file_name), item.title)

(***************************************************************************)
(* EpubWriter._get_ncx: the navMap. A navPoint is [id, label, src, kids];  *)
(* src is the src attribute of its content element as it stands when       *)
(* _create_section returns.                                                *)
(***************************************************************************)
NavPoint(id, label, src, kids) ==
    [id |-> id, label |-> label, src |-> src, kids |-> kids]

\* lines 516-523: the target a subsection's navPoint is created with
SectionHref(section) ==
    IF section.t = "EpubHtml" THEN section.href
    ELSE IF section.t = "Section" /\ section.href # "" THEN section.href
    ELSE IF section.t = "Link" THEN section.href
    ELSE ""

\* a leaf child's target stored in the content element whatever it holds
BackfillAlways(src, target) ==
    IF src # None THEN target ELSE src

\* lines 529-534 and 547-552: a leaf child's effect on the content element
\* of the navPoint it is appended to (None: itm.find('content') is None)
Backfill(src, target) ==
    IF src # None /\ src = "" THEN target ELSE src

RECURSIVE NcxSection(_, _, _)
\* _create_section(itm, items, uid): the navPoints appended to itm, the src
\* of itm's content element afterwards, and the returned uid
NcxSection(src, nodes, uid) ==
    IF nodes = <<>>
    THEN [nps |-> <<>>, src |-> src, uid |-> uid]
    ELSE LET n == Head(nodes)
         IN  IF n.t = "tuple"
             THEN LET sub == NcxSection(SectionHref(n.head), n.kids, uid + 1)
                      np == NavPoint(IF n.head.t = "EpubHtml" THEN n.head.uid
                                     ELSE "sep_" \o ToString(uid),
                                     n.head.title, sub.src, sub.nps)
                      rest == NcxSection(src, Tail(nodes), sub.uid)
                  IN  [rest EXCEPT !.nps = <<np>> \o @]
             ELSE IF n.t \in {"Link", "EpubHtml"}
             THEN LET np == NavPoint(n.uid, n.title, n.href, <<>>)
                      rest == NcxSection(Backfill(src, n.href), Tail(nodes),
                                         uid)
                  IN  [rest EXCEPT !.nps = <<np>> \o @]
             ELSE NcxSection(src, Tail(nodes), uid)

get_ncx == [t |-> "ncx", navMap |-> NcxSection(None, toc, 0).nps]

(***************************************************************************)
(* EpubWriter._get_nav. The navigation document lives in the archive's     *)
(* content folder root (nav_dir_name = ''), as EpubNav's default file name *)
(* has it; posixpath.relpath(p, '') raises ValueError for p = '' and is p  *)
(* for a normalised relative p.                                            *)
(***************************************************************************)
RelPathRaises(path) == path = ""

relpath(path) == path

\* an <li>: its <a href> or <span>, and the nested <ol> of a subsection
Li(tag, href, text, sub, kids) ==
    [tag |-> tag, href |-> href, text |-> text, sub |-> sub, kids |-> kids]

\* lines 339-358: whether a subsection's heading renders as <a>
HeadIsAnchor(section) ==
    \/ section.t = "EpubHtml"
    \/ section.t = "Section" /\ section.href # ""
    \/ section.t = "Link"

RECURSIVE NavSection(_)
NavSection(nodes) ==
    IF nodes = <<>> THEN <<>>
    ELSE LET n == Head(nodes)
             rest == NavSection(Tail(nodes))
         IN  IF n.t = "tuple"
             THEN <<Li(IF HeadIsAnchor(n.head) THEN "a" ELSE "span",
                       IF HeadIsAnchor(n.head) THEN relpath(n.head.href)
                       ELSE None,
                       n.head.title, TRUE, NavSection(n.kids))>> \o rest
             ELSE IF n.t \in {"Link", "EpubHtml"}
             THEN <<Li("a", relpath(n.href), n.title, FALSE, <<>>)>> \o rest
             ELSE rest

RECURSIVE NavSectionRaises(_)
\* relpath raising inside _create_section
NavSectionRaises(nodes) ==
    IF nodes = <<>> THEN FALSE
    ELSE LET n == Head(nodes)
         IN  \/ /\ n.t = "tuple"
                /\ \/ HeadIsAnchor(n.head) /\ RelPathRaises(n.head.href)
                   \/ NavSectionRaises(n.kids)
             \/ n.t \in {"Link", "EpubHtml"} /\ RelPathRaises(n.href)
             \/ NavSectionRaises(Tail(nodes))

(***************************************************************************)
(* Page markers (items.py, get_pages and get_pages_for_items). An element  *)
(* of a body is [epub_type, id, text, aria, header]: whether it carries an *)
(* epub:type attribute, its id attribute, its stripped own text, its       *)
(* aria-label attribute, and what get_headers finds under it (None where   *)
(* absent).                                                                *)
(***************************************************************************)
Elem(epub_type, id, text, aria, header) ==
    [epub_type |-> epub_type, id |-> id, text |-> text, aria |-> aria,
     header |-> header]

\* the label of lines 371-382: `text or id`
PageLabel(e) ==
    LET t1 == IF e.text # None /\ e.text # "" THEN e.text ELSE None
        t2 == IF t1 = None THEN e.aria ELSE t1
        t3 == IF t2 = None THEN e.header ELSE t2
    IN  IF t3 = None \/ t3 = "" THEN e.id ELSE t3

\* get_body_content is b'' for content that does not parse or whose body has
\* no child element, and html.document_fromstring(b'') raises ParserError
GetPagesRaises(item) == item.content.raw = "" \/ item.content.els = <<>>

RECURSIVE PagesOfElems(_, _)
PagesOfElems(file_name, els) ==
    IF els = <<>> THEN <<>>
    ELSE LET e == Head(els)
             rest == PagesOfElems(file_name, Tail(els))
         IN  IF e.epub_type /\ e.id # None
             THEN <<<<file_name, e.id, PageLabel(e)>>>> \o rest
             ELSE rest

get_pages(item) == PagesOfElems(PathStr(item.file_name), item.content.els)

RECURSIVE Flatten(_)
Flatten(seqs) ==
    IF seqs = <<>> THEN <<>> ELSE Head(seqs) \o Flatten(Tail(seqs))

RECURSIVE FlatPagesOfItems(_)
\* [page for item in items for pages in get_pages(item) for page in pages]:
\* the innermost loop runs over the three members of each tuple
FlatPagesOfItems(its) ==
    IF its = <<>> THEN <<>>
    ELSE Flatten(get_pages(Head(its))) \o FlatPagesOfItems(Tail(its))

get_pages_for_items(its) == FlatPagesOfItems(its)

\* the generator handed to get_pages_for_items at lines 422-426
IsPageDoc(item) == IsEpubHtml(item) /\ ~IsEpubNav(item)

PageDocs == SelectSeq(items, IsPageDoc)

PagesRaise == \E i \in 1..Len(PageDocs) : GetPagesRaises(PageDocs[i])

\* the characters of the model's strings
Alphabet ==
    {"a", "b", "c", "h", "i", "p", "x", "0", "1", "2", ".", "#", "/"}

\* `for filename, pageref, label in inserted_pages`: a str unpacks into its
\* characters, and only if it has exactly three
UnpackRaises(s) == Len(s) # 3

Unpack3(s) ==
    CHOOSE t \in Alphabet \X Alphabet \X Alphabet : t[1] \o t[2] \o t[3] = s

PageHref(filename, pageref) == filename \o "#" \o pageref

RECURSIVE PageListEntries(_)
\* lines 443-456: one <li><a href> per member of inserted_pages
PageListEntries(inserted) ==
    IF inserted = <<>> THEN <<>>
    ELSE LET u == Unpack3(Head(inserted))
         IN  <<[href |-> relpath(PageHref(u[1], u[2])), text |-> u[3]]>>
             \o PageListEntries(Tail(inserted))

(***************************************************************************)
(* Guide entries: a dict with 'type' and either 'item' (a document) or     *)
(* 'href' and 'title'. has_item records which; href and title are then the *)
(* document's file_name and title.                                         *)
(***************************************************************************)
GuideEntry(type, has_item, href, title) ==
    [type |-> type, has_item |-> has_item, href |-> href, title |-> title]

guide_to_landscape_map(type) ==
    CASE type = "notes" -> "rearnotes"
      [] type = "text"  -> "bodymatter"
      [] OTHER          -> type

Landmarks ==
    [i \in 1..Len(guide) |->
        [type |-> guide_to_landscape_map(guide[i].type),
         href |-> relpath(guide[i].href),
         text |-> guide[i].title]]

LandmarksRaise == \E i \in 1..Len(guide) : RelPathRaises(guide[i].href)

Bytes(s) == [t |-> "bytes", v |-> s]

\* _get_nav raises: relpath in the TOC or the landmarks, get_pages, or the
\* unpacking of inserted_pages
GetNavRaises ==
    \/ NavSectionRaises(toc)
    \/ /\ Len(guide) # 0
       /\ \/ LandmarksRaise
          \/ PagesRaise
          \/ \E i \in 1..Len(get_pages_for_items(PageDocs)) :
                UnpackRaises(get_pages_for_items(PageDocs)[i])

\* _get_nav's return value, when it does not raise
get_nav(item) ==
    IF Len(guide) = 0
    THEN Bytes("")
    ELSE LET inserted_pages == get_pages_for_items(PageDocs)
         IN  [t |-> "nav",
              title |-> IF item.title # "" THEN item.title ELSE book_title,
              toc |-> NavSection(toc),
              landmarks |-> Landmarks,
              has_pagelist |-> Len(inserted_pages) > 0,
              pagelist |-> PageListEntries(inserted_pages)]

(***************************************************************************)
(* The package document (EpubWriter._write_opf).                           *)
(***************************************************************************)
FOLDER_NAME == "EPUB"

\* every item taken for manifest-eligible
IsManifestAlways(item) == TRUE

\* line 121: `if not item.manifest: continue`
IsManifest(item) == item.manifest

\* _write_opf_manifest, lines 120-174: one <item> per manifest item
ManifestEntry(item) ==
    [href |-> PathStr(item.file_name), id |-> item.uid,
     media_type |-> item.media_type,
     properties |-> IF IsEpubNav(item) THEN "nav"
                    ELSE IF IsEpubNcx(item) THEN None
                    ELSE IF IsEpubCover(item) THEN "cover-image"
                    ELSE None]

OpfManifest ==
    LET ms == SelectSeq(items, IsManifest)
    IN  [i \in 1..Len(ms) |-> ManifestEntry(ms[i])]

\* _write_opf_manifest's return value: the uid of the last manifest item
\* that is an EpubNcx, None without one
NcxId ==
    LET ncxs == SelectSeq(SelectSeq(items, IsManifest), IsEpubNcx)
    IN  IF ncxs = <<>> THEN None ELSE ncxs[Len(ncxs)].uid

\* the spine's toc attribute without the captured id
SpineTocDefault(ncx_id) == "ncx"

\* line 179: ncx_id or 'ncx'
SpineToc(ncx_id) == IF ncx_id = None \/ ncx_id = "" THEN "ncx" ELSE ncx_id

(***************************************************************************)
(* Spine entries: a str (an id) or an item of the book, bare or as the     *)
(* first member of a tuple whose second member, if any, is 'no' or 'yes'.  *)
(***************************************************************************)
SpineStr(s) == [t |-> "str", s |-> s, i |-> 0]
SpineObj(i) == [t |-> "obj", s |-> "", i |-> i]

SpineEntry(ref, is_tuple, second) ==
    [ref |-> ref, is_tuple |-> is_tuple, second |-> second]

Itemref(idref, linear) == [idref |-> idref, linear |-> linear]

\* lines 189-198
EntryIsLinear(e) == ~(e.is_tuple /\ e.second = "no")

\* lines 200-223: the itemrefs one spine entry adds
SpineItemrefs(e) ==
    LET is_linear == EntryIsLinear(e)
    IN  IF e.ref.t = "obj"
        THEN LET item == items[e.ref.i]
             IN  <<Itemref(item.uid,
                           IF ~item.is_linear \/ ~is_linear THEN "no"
                           ELSE None)>>
        ELSE IF ~HasItemWithId(e.ref.s) THEN <<>>
        ELSE IF get_item_with_id(e.ref.s).is_linear /\ is_linear THEN <<>>
        ELSE <<Itemref(e.ref.s, "no")>>

RECURSIVE OpfSpine(_)
OpfSpine(sp) ==
    IF sp = <<>> THEN <<>>
    ELSE SpineItemrefs(Head(sp)) \o OpfSpine(Tail(sp))

\* _write_opf_guide
OpfGuide ==
    [i \in 1..Len(guide) |->
        [type |-> guide[i].type, title |-> guide[i].title,
         href |-> guide[i].href]]

(***************************************************************************)
(* _write_opf_metadata, lines 85-110. lxml raises ValueError for a tag or  *)
(* attribute name that is not an XML name and for a text or attribute      *)
(* value holding a control character; InvalidNames and InvalidTexts stand  *)
(* for those. The order of the namespaces and names of the registry is not *)
(* modelled: the block is kept per namespace and name.                     *)
(***************************************************************************)
DCTERMS_MODIFIED == "dcterms:modified"

InvalidNames == {"bad name"}

InvalidTexts == {"\f"}

\* etree.SubElement(parent, tag, attrib) raises ValueError for attrib
AttribRaises(others) ==
    /\ others # NoOthers
    /\ \E k \in DOMAIN others : k \in InvalidNames \/ others[k] \in InvalidTexts

\* line 89: 'property' in v[1] with v[1] None raises TypeError, outside the
\* try statement
OpfMetadataRaises(md) ==
    /\ NS_OPF \in DOMAIN md
    /\ \E name \in DOMAIN md[NS_OPF] :
          \E i \in 1..Len(md[NS_OPF][name]) : md[NS_OPF][name][i][2] = NoOthers

MetaEl(tag, attrib, text) == [tag |-> tag, attrib |-> attrib, text |-> text]

\* lines 87-110, one registered entry v = (value, others): the elements it
\* adds to the block. An element created by SubElement stays in the block
\* when the assignment of its text raises ValueError afterwards.
MetaElements(ns, name, v) ==
    IF ns = NS_OPF
    THEN IF "property" \in DOMAIN v[2] /\ v[2].property = DCTERMS_MODIFIED
         THEN <<>>
         ELSE IF AttribRaises(v[2]) THEN <<>>
         ELSE <<MetaEl("meta", v[2],
                       IF v[1] = "" \/ v[1] \in InvalidTexts THEN None
                       ELSE v[1])>>
    ELSE IF name \in InvalidNames \/ AttribRaises(v[2]) THEN <<>>
         ELSE <<MetaEl(IF ns # None THEN "{" \o ns \o "}" \o name ELSE name,
                       v[2], IF v[1] \in InvalidTexts THEN None ELSE v[1])>>

RECURSIVE MetaElementsOfList(_, _, _)
MetaElementsOfList(ns, name, vs) ==
    IF vs = <<>> THEN <<>>
    ELSE MetaElements(ns, name, Head(vs))
         \o MetaElementsOfList(ns, name, Tail(vs))

\* the metadata block after the dcterms:modified element
OpfMetadata(md) ==
    [ns \in DOMAIN md |->
       [name \in DOMAIN md[ns] |-> MetaElementsOfList(ns, name, md[ns][name])]]

write_opf ==
    [t |-> "opf",
     metadata |-> OpfMetadata(metadata),
     manifest |-> OpfManifest,
     spine_toc |-> SpineToc(NcxId),
     itemrefs |-> OpfSpine(spine),
     has_guide |-> Len(guide) # 0,
     guide |-> OpfGuide,
     bindings |-> <<>>]

(***************************************************************************)
(* The archive (EpubWriter.__init__, write, __exit__).                     *)
(***************************************************************************)
\* an archive entry; item is the index in book.items of the item it was
\* written for, 0 for the entries that belong to no item
Entry(name, compress, content, item) ==
    [name |-> name, compress |-> compress, content |-> content,
     item |-> item]

\* the mimetype entry written with the archive's default compression
MimetypeEntryDeflated ==
    Entry("mimetype", "ZIP_DEFLATED", Bytes("application/epub+zip"), 0)

\* lines 51-53
MimetypeEntry ==
    Entry("mimetype", "ZIP_STORED", Bytes("application/epub+zip"), 0)

CONTAINER_PATH == "META-INF/container.xml"

ContainerEntry ==
    Entry(CONTAINER_PATH, "ZIP_DEFLATED",
          [t |-> "container",
           full_path |-> FOLDER_NAME \o "/content.opf"], 0)

OpfEntry ==
    Entry(FOLDER_NAME \o "/content.opf", "ZIP_DEFLATED", write_opf, 0)

COVER_XML == Content("COVER_XML", <<Elem(FALSE, None, None, None, None)>>)

\* EpubHtml.get_content / EpubCoverHtml.get_content: the wrapped document,
\* b'' when the stored content does not parse
get_content(item) ==
    LET content == IF item.cls = "EpubCoverHtml" THEN COVER_XML
                   ELSE item.content
    IN  IF content.raw = "" THEN Bytes("")
        ELSE [t |-> "xhtml", title |-> item.title, body |-> content.els,
              img |-> IF item.cls = "EpubCoverHtml"
                      THEN [src |-> item.image_name, alt |-> item.title]
                      ELSE None]

\* EpubCoverHtml.get_content stores COVER_XML in the item (line 280)
AfterGetContent(item) ==
    IF item.cls = "EpubCoverHtml" THEN [item EXCEPT !.content = COVER_XML]
    ELSE item

InFolder(item) == FOLDER_NAME \o "/" \o PathStr(item.file_name)

\* _write_items, lines 577-595: the entry written for items[i]
ItemEntry(i) ==
    LET item == items[i]
    IN  IF IsEpubNcx(item)
        THEN Entry(InFolder(item), "ZIP_DEFLATED", get_ncx, i)
        ELSE IF IsEpubNav(item)
        THEN Entry(InFolder(item), "ZIP_DEFLATED", get_nav(item), i)
        ELSE IF IsEpubHtml(item)
        THEN Entry(InFolder(item), "ZIP_DEFLATED", get_content(item), i)
        ELSE IF item.manifest
        THEN Entry(InFolder(item), "ZIP_DEFLATED", Bytes(item.content.raw), i)
        ELSE Entry(PathStr(item.file_name), "ZIP_DEFLATED",
                   Bytes(item.content.raw), i)

ItemRaises(i) == IsEpubNav(items[i]) /\ GetNavRaises

\* EpubWriter(book): opens the archive and writes the mimetype entry
NewWriter ==
    /\ pc = "build"
    /\ zip' = <<MimetypeEntry>>
    /\ zipOpen' = TRUE
    /\ pc' = "entered"
    /\ UNCHANGED <<items, id_html, id_image, id_static, pages, book_title,
                   metadata, spine, guide, toc, wi, calls,
                   disk, chapters, cpc, mcalls>>

\* write(), first call: _write_container
WriteContainer ==
    /\ pc = "entered"
    /\ zip' = Append(zip, ContainerEntry)
    /\ pc' = "opf"
    /\ UNCHANGED <<items, id_html, id_image, id_static, pages, book_title,
                   metadata, spine, guide, toc, zipOpen, wi, calls,
                   disk, chapters, cpc, mcalls>>

\* write(), second call: _write_opf
WriteOpf ==
    /\ pc = "opf"
    /\ IF OpfMetadataRaises(metadata)
       THEN /\ pc' = "raised"
            /\ UNCHANGED <<zip, wi>>
       ELSE /\ zip' = Append(zip, OpfEntry)
            /\ pc' = IF Len(items) = 0 THEN "returned" ELSE "items"
            /\ wi' = 1
    /\ UNCHANGED <<items, id_html, id_image, id_static, pages, book_title,
                   metadata, spine, guide, toc, zipOpen, calls,
                   disk, chapters, cpc, mcalls>>

\* _write_items running over book.items from its end
WriteItemReversed ==
    /\ pc = "items"
    /\ LET k == Len(items) + 1 - wi
       IN  IF ItemRaises(k)
           THEN /\ pc' = "raised"
                /\ UNCHANGED <<items, zip, wi>>
           ELSE /\ zip' = Append(zip, ItemEntry(k))
                /\ items' = [items EXCEPT ![k] = AfterGetContent(@)]
                /\ wi' = wi + 1
                /\ pc' = IF wi = Len(items) THEN "returned" ELSE "items"
    /\ UNCHANGED <<id_html, id_image, id_static, pages, book_title, metadata,
                   spine, guide, toc, zipOpen, calls,
                   disk, chapters, cpc, mcalls>>

\* write(), third call: one turn of _write_items' loop
WriteItem ==
    /\ pc = "items"
    /\ IF ItemRaises(wi)
       THEN /\ pc' = "raised"
            /\ UNCHANGED <<items, zip, wi>>
       ELSE /\ zip' = Append(zip, ItemEntry(wi))
            /\ items' = [items EXCEPT ![wi] = AfterGetContent(@)]
            /\ wi' = wi + 1
            /\ pc' = IF wi = Len(items) THEN "returned" ELSE "items"
    /\ UNCHANGED <<id_html, id_image, id_static, pages, book_title, metadata,
                   spine, guide, toc, zipOpen, calls,
                   disk, chapters, cpc, mcalls>>

\* the archive closed only after a write() that returned
ExitOnReturnOnly ==
    /\ pc \in {"returned", "raised"}
    /\ zipOpen' = (pc = "raised")
    /\ pc' = IF pc = "returned" THEN "done" ELSE "failed"
    /\ UNCHANGED <<items, id_html, id_image, id_static, pages, book_title,
                   metadata, spine, guide, toc, zip, wi, calls,
                   disk, chapters, cpc, mcalls>>

\* __exit__: the with statement closes the archive on both exits
Exit ==
    /\ pc \in {"returned", "raised"}
    /\ zipOpen' = FALSE
    /\ pc' = IF pc = "returned" THEN "done" ELSE "failed"
    /\ UNCHANGED <<items, id_html, id_image, id_static, pages, book_title,
                   metadata, spine, guide, toc, zip, wi, calls,
                   disk, chapters, cpc, mcalls>>

Writer == NewWriter \/ WriteContainer \/ WriteOpf \/ WriteItem \/ Exit

(***************************************************************************)
(* The caller's appends to book.spine, book.guide and book.toc.            *)
(***************************************************************************)
SpineAppend(e) ==
    /\ pc = "build"
    /\ Len(spine) < MaxSpine
    /\ e.ref.t = "obj" => e.ref.i \in 1..Len(items)
    /\ spine' = Append(spine, e)
    /\ UNCHANGED <<items, id_html, id_image, id_static, pages, book_title,
                   metadata, guide, toc, zip, zipOpen, pc, wi, calls,
                   disk, chapters, cpc, mcalls>>

GuideAppend(g) ==
    /\ pc = "build"
    /\ Len(guide) < MaxGuide
    /\ guide' = Append(guide, g)
    /\ UNCHANGED <<items, id_html, id_image, id_static, pages, book_title,
                   metadata, spine, toc, zip, zipOpen, pc, wi, calls,
                   disk, chapters, cpc, mcalls>>

\* book.toc.append(item) for a document already added to the book
TocAppendItem(i) ==
    /\ pc = "build"
    /\ Len(toc) < MaxToc
    /\ i \in 1..Len(items)
    /\ items[i].cls = "EpubHtml"
    /\ toc' = Append(toc, TocOfItem(items[i]))
    /\ UNCHANGED <<items, id_html, id_image, id_static, pages, book_title,
                   metadata, spine, guide, zip, zipOpen, pc, wi, calls,
                   disk, chapters, cpc, mcalls>>

(***************************************************************************)
(* Inputs.                                                                 *)
(***************************************************************************)
ChpFile == FN("", "chp0", ".xhtml")
CssFile == FN("style", "nav", ".css")
PngFile == FN("image", "cover", ".png")
NcxFile == FN("", "toc", ".ncx")
NavFile == FN("", "nav", ".xhtml")

Para == Elem(FALSE, None, "abc", None, None)

PlainBody == Content("<p>abc</p>", <<Para>>)

DefaultNcx == EpubNcx("ncx", NcxFile)
DefaultNav == EpubNav("nav", NavFile, "application/xhtml+xml", "")

\* the items the aggregate is built from
ItemArgs ==
    { EpubHtml("", ChpFile, "", PlainBody, "a"),
      EpubHtml("chapter_0", ChpFile, "", PlainBody, "a"),
      EpubImage("", PngFile, "", Content("png", <<>>)),
      EpubItem("", CssFile, "", Content("css", <<>>), TRUE),
      EpubItem("style_nav", CssFile, "text/css", Content("css", <<>>), FALSE),
      DefaultNcx,
      EpubNcx("", NcxFile),
      DefaultNav }

BuildItems ==
    \/ \E item \in ItemArgs : AddItem(item)
    \/ \E create_page \in BOOLEAN : SetCover(PngFile, create_page)

Next == BuildItems \/ Writer

Spec == Init /\ [][Next]_vars

(***************************************************************************)
(* Properties of the aggregate and of the archive's layout (Spec).         *)
(***************************************************************************)
ItemOfEntry(e) == items[e.item]

\* C1: the archive is empty until the writer is constructed, and from then
\* on its first entry is `mimetype`, stored uncompressed, holding exactly
\* application/epub+zip: no other entry is ever written before it.
MimetypeFirst ==
    /\ pc = "build" => zip = <<>>
    /\ pc # "build" =>
         /\ Len(zip) >= 1
         /\ zip[1].name = "mimetype"
         /\ zip[1].compress = "ZIP_STORED"
         /\ zip[1].content = [t |-> "bytes", v |-> "application/epub+zip"]
         /\ \A p \in 2..Len(zip) : zip[p].name # "mimetype"

MimetypeFirstWitness ==
    /\ pc = "done"
    /\ Len(zip) > 3
    /\ zip[1].name = "mimetype"

ExpectedEntryName(item) ==
    IF item.cls \in {"EpubNcx", "EpubNav", "EpubHtml", "EpubCoverHtml"}
       \/ item.manifest
    THEN "EPUB/" \o PathStr(item.file_name)
    ELSE PathStr(item.file_name)

Category(item) ==
    IF item.cls \in {"EpubHtml", "EpubCoverHtml", "EpubNav"} THEN "chapter"
    ELSE IF item.cls = "EpubImage" THEN "image"
    ELSE "static"

\* how many id-less items of calls[i]'s category were inserted before it
IdlessBefore(i) ==
    Cardinality({j \in 1..(i - 1) :
                    /\ calls[j].uid = ""
                    /\ Category(calls[j]) = Category(calls[i])})

IdlessOf(cat) ==
    Cardinality({j \in 1..Len(calls) :
                    calls[j].uid = "" /\ Category(calls[j]) = cat})

\* C3: the k-th item inserted without an id (k from 0) is chapter_k among
\* the content documents, image_k among the images and static_k among the
\* rest, in insertion order and without gaps; an item inserted with an id
\* keeps it and advances no counter.
AssignedIds ==
    /\ Len(items) = Len(calls)
    /\ \A i \in 1..Len(items) :
          items[i].uid =
             IF calls[i].uid = ""
             THEN Category(calls[i]) \o "_" \o ToString(IdlessBefore(i))
             ELSE calls[i].uid
    /\ id_html = IdlessOf("chapter")
    /\ id_image = IdlessOf("image")
    /\ id_static = IdlessOf("static")

\* two id-less content documents with an item that has an id between them
AssignedIdsWitness ==
    /\ Len(calls) = 3
    /\ calls[1].uid = "" /\ calls[1].cls = "EpubHtml"
    /\ calls[2].uid # ""
    /\ calls[3].uid = "" /\ calls[3].cls = "EpubHtml"
    /\ items[3].uid = "chapter_1"

\* C4: no two items of book.items have the same uid.
UidsUnique ==
    \A i \in 1..Len(items) : \A j \in 1..Len(items) :
        i # j => items[i].uid # items[j].uid

NcxPositions == {i \in 1..Len(items) : items[i].cls = "EpubNcx"}

LastNcx == CHOOSE i \in NcxPositions : \A j \in NcxPositions : j <= i

\* C5: the spine's toc attribute in the package document is the uid of the
\* navigation-control item when book.items holds one (of the last, when it
\* holds several) and `ncx` when it holds none.
SpineTocIsNcxUid ==
    \A p \in 1..Len(zip) :
        zip[p].content.t = "opf" =>
            zip[p].content.spine_toc =
                IF NcxPositions = {} THEN "ncx" ELSE items[LastNcx].uid

\* a navigation-control item whose uid is not the default one
SpineTocIsNcxUidWitness ==
    /\ pc = "done"
    /\ \E i \in NcxPositions : items[i].uid = "static_0"
    /\ zip[3].content.spine_toc = "static_0"

(***************************************************************************)
(* The spine of the package document (SpecSpine): a book of a cover page,  *)
(* chapters and the navigation items, and a spine of ids and items.        *)
(***************************************************************************)
SpineItemArgs ==
    { EpubHtml("", ChpFile, "", PlainBody, "a"), DefaultNcx, DefaultNav }

SpineForms == {<<FALSE, None>>, <<TRUE, "no">>, <<TRUE, "yes">>}

SpineEntries ==
    { SpineEntry(ref, f[1], f[2]) :
        ref \in {SpineStr(s) : s \in {"nav", "cover", "missing"}}
                \cup {SpineObj(i) : i \in 1..MaxItems},
        f \in SpineForms }

NextSpine ==
    \/ \E item \in SpineItemArgs : AddItem(item)
    \/ SetCover(PngFile, TRUE)
    \/ \E e \in SpineEntries : SpineAppend(e)
    \/ Writer

SpecSpine == Init /\ [][NextSpine]_vars

FirstWithUid(uid) ==
    CHOOSE i \in 1..Len(items) :
        items[i].uid = uid /\ \A j \in 1..(i - 1) : items[j].uid # uid

\* the itemrefs the claim gives one spine entry
ClaimedItemrefs(e) ==
    LET forced == e.is_tuple /\ e.second = "no"
    IN  IF e.ref.t = "str"
        THEN IF \E i \in 1..Len(items) : items[i].uid = e.ref.s
             THEN <<[idref |-> e.ref.s,
                     linear |-> IF ~items[FirstWithUid(e.ref.s)].is_linear
                                   \/ forced
                                THEN "no" ELSE None]>>
             ELSE <<>>
        ELSE <<[idref |-> items[e.ref.i].uid,
                linear |-> IF ~items[e.ref.i].is_linear \/ forced
                           THEN "no" ELSE None]>>

RECURSIVE ClaimedSpine(_)
ClaimedSpine(sp) ==
    IF sp = <<>> THEN <<>>
    ELSE ClaimedItemrefs(Head(sp)) \o ClaimedSpine(Tail(sp))

\* C6: in spine order, every spine entry that is an id resolving to an item
\* of the book has an itemref, with linear="no" exactly when the item is
\* non-linear or the entry forces it and with no linear attribute otherwise;
\* an id that resolves to no item has none.
SpineItemrefsAsClaimed ==
    \A p \in 1..Len(zip) :
        zip[p].content.t = "opf" =>
            zip[p].content.itemrefs = ClaimedSpine(spine)

(***************************************************************************)
(* The navigation document's landmarks and page list (SpecNav): a book of  *)
(* chapters with and without page markers, a guide and a flat TOC.         *)
(***************************************************************************)
Chp1File == FN("", "chp1", ".xhtml")
ShortFile == FN("", "c", ".x")

PagedBody ==
    Content("<p>abc</p><span epub:type='pagebreak' id='p1'>1</span>",
            <<Para, Elem(TRUE, "p1", "1", None, None)>>)

NoIdBody ==
    Content("<span epub:type='pagebreak'>1</span>",
            <<Elem(TRUE, None, "1", None, None)>>)

ShortBody ==
    Content("<span epub:type='pagebreak' id='p01'>abc</span>",
            <<Elem(TRUE, "p01", "abc", None, None)>>)

NavItemArgs ==
    { EpubHtml("", ChpFile, "", PlainBody, "a"),
      EpubHtml("", Chp1File, "", PagedBody, "b"),
      EpubHtml("", Chp1File, "", NoIdBody, "b"),
      EpubHtml("", ShortFile, "", ShortBody, "c"),
      DefaultNav }

GuideArgs ==
    { GuideEntry("cover", FALSE, "cover.xhtml", "Cover"),
      GuideEntry("text", TRUE, "chp0.xhtml", "a") }

NextNav ==
    \/ \E item \in NavItemArgs : AddItem(item)
    \/ \E g \in GuideArgs : GuideAppend(g)
    \/ \E i \in 1..MaxItems : TocAppendItem(i)
    \/ Writer

SpecNav == Init /\ [][NextNav]_vars

EntryOfNav(e) == e.item # 0 /\ items[e.item].cls = "EpubNav"

\* C7: the entry written for a navigation document item is the rendering of
\* the TOC (heading and list, here of a flat TOC of documents) for every
\* book, one with an empty guide included, and holds a landmarks block
\* exactly when the guide is not empty.
NavEntryIsRendering ==
    \A p \in 1..Len(zip) :
        EntryOfNav(zip[p]) =>
            /\ zip[p].content.t = "nav"
            /\ zip[p].content.toc =
                 [i \in 1..Len(toc) |->
                    [tag |-> "a", href |-> toc[i].href, text |-> toc[i].title,
                     sub |-> FALSE, kids |-> <<>>]]
            /\ (zip[p].content.landmarks # <<>>) <=> (guide # <<>>)

RECURSIVE TriplesOf(_)
\* the derived page list: the triples of the content documents, in order
TriplesOf(its) ==
    IF its = <<>> THEN <<>>
    ELSE get_pages(Head(its)) \o TriplesOf(Tail(its))

ContentDocs ==
    SelectSeq(items, LAMBDA it : it.cls \in {"EpubHtml", "EpubCoverHtml"})

\* C8: the navigation document has no page-list block when the derived page
\* list is empty and otherwise a page-list block of one entry per triple, in
\* order, with href `filename#id`, whether or not the guide is empty.
PageListAsClaimed ==
    \A p \in 1..Len(zip) :
        EntryOfNav(zip[p]) =>
            LET triples == TriplesOf(ContentDocs)
            IN  IF triples = <<>>
                THEN zip[p].content.t = "nav" => ~zip[p].content.has_pagelist
                ELSE /\ zip[p].content.t = "nav"
                     /\ zip[p].content.has_pagelist
                     /\ zip[p].content.pagelist =
                          [i \in 1..Len(triples) |->
                             [href |-> triples[i][1] \o "#" \o triples[i][2],
                              text |-> triples[i][3]]]

(***************************************************************************)
(* The two renderings of a TOC tree (SpecToc): the book create_epub        *)
(* builds its navigation items into (add_item(EpubNcx()),                  *)
(* add_item(EpubNav())), with book.toc any tree of at most MaxNodes nodes  *)
(* and book.guide empty or of one entry, handed to the writer.             *)
(***************************************************************************)
MaxNodes == 3

TocLeaves ==
    { TocHtml("chapter_0", "a.xhtml", "A"),
      Link("b.html", "B", "b"),
      Link("", "E", "e"),
      Link("d.html", "D", ""),
      TocStr("cover") }

TocHeads ==
    { Section("S", ""), Section("T", "s.html"),
      TocHtml("chapter_1", "c.xhtml", "C"),
      Link("h.html", "H", "") }

RECURSIVE ForestsOfSize(_)
RECURSIVE NodesOfSize(_)
\* the TOC entries of n nodes: a leaf, or a (heading, entries) tuple
NodesOfSize(n) ==
    (IF n = 1 THEN TocLeaves ELSE {})
    \cup { TocTuple(h, f) : h \in TocHeads, f \in ForestsOfSize(n - 1) }

\* the TOC lists of n nodes in all
ForestsOfSize(n) ==
    IF n = 0 THEN { <<>> }
    ELSE UNION { { <<nd>> \o f : nd \in NodesOfSize(k),
                                 f \in ForestsOfSize(n - k) } : k \in 1..n }

TocTrees == UNION { ForestsOfSize(n) : n \in 0..MaxNodes }

InitToc ==
    LET b0 == [items |-> <<>>, id_html |-> 0, id_image |-> 0,
               id_static |-> 0, pages |-> <<>>]
        b == add_item(add_item(b0, DefaultNcx), DefaultNav)
    IN  /\ items = b.items
        /\ id_html = b.id_html
        /\ id_image = b.id_image
        /\ id_static = b.id_static
        /\ pages = b.pages
        /\ book_title = ""
        /\ metadata = add_metadata(EmptyDict, "OPF", "generator", "",
                         [name |-> "generator", content |-> "md2epub.epublib"])
        /\ spine = <<>>
        /\ guide \in { <<>> } \cup { <<g>> : g \in GuideArgs }
        /\ toc \in TocTrees
        /\ zip = <<>>
        /\ zipOpen = FALSE
        /\ pc = "build"
        /\ wi = 0
        /\ calls = <<DefaultNcx, DefaultNav>>
        /\ mcalls = <<>>
        /\ disk = NoDisk
        /\ chapters = <<>>
        /\ cpc = "lib"

NextToc == Writer

SpecToc == InitToc /\ [][NextToc]_vars

EntryOfNcx(e) == e.item # 0 /\ items[e.item].cls = "EpubNcx"

RECURSIVE Shape(_)
\* the shape of a rendering: for each sibling, in order, the shape below it
Shape(nodes) == [i \in 1..Len(nodes) |-> Shape(nodes[i].kids)]

\* C9: for every TOC tree the navigation document written for the book has
\* the same shape as the NCX written for it: the same nesting depth and the
\* same sibling sequences.
SameShape ==
    \A p, q \in 1..Len(zip) :
        EntryOfNcx(zip[p]) /\ EntryOfNav(zip[q]) =>
            /\ zip[q].content.t = "nav"
            /\ Shape(zip[q].content.toc) = Shape(zip[p].content.navMap)

\* where _get_nav does render the TOC, the two shapes agree
SameShapeWhenRendered ==
    \A p, q \in 1..Len(zip) :
        /\ EntryOfNcx(zip[p]) /\ EntryOfNav(zip[q])
        /\ zip[q].content.t = "nav"
        => Shape(zip[q].content.toc) = Shape(zip[p].content.navMap)

SameShapeWhenRenderedWitness ==
    \E p, q \in 1..Len(zip) :
        /\ EntryOfNcx(zip[p]) /\ EntryOfNav(zip[q])
        /\ zip[q].content.t = "nav"
        /\ \E i \in 1..Len(zip[q].content.toc) :
              Len(zip[q].content.toc[i].kids) = 2

\* the TOC entries that yield a navPoint
Rendered(nodes) ==
    SelectSeq(nodes, LAMBDA n : n.t \in {"tuple", "Link", "EpubHtml"})

\* the targets of the document and link leaf children of a section
LeafTargets(kids) ==
    LET leaves == SelectSeq(kids, LAMBDA n : n.t \in {"Link", "EpubHtml"})
    IN  [i \in 1..Len(leaves) |-> leaves[i].href]

FirstNonEmpty(targets) ==
    IF \E i \in 1..Len(targets) : targets[i] # ""
    THEN targets[CHOOSE i \in 1..Len(targets) :
                    /\ targets[i] # ""
                    /\ \A j \in 1..(i - 1) : targets[j] = ""]
    ELSE ""

RECURSIVE FirstLeafTarget(_, _)
FirstLeafTarget(nodes, nps) ==
    LET r == Rendered(nodes)
    IN  /\ Len(r) = Len(nps)
        /\ \A i \in 1..Len(r) :
              r[i].t = "tuple" =>
                 /\ IF SectionHref(r[i].head) = ""
                    THEN Len(LeafTargets(r[i].kids)) >= 2 =>
                            nps[i].src = LeafTargets(r[i].kids)[1]
                    ELSE nps[i].src = SectionHref(r[i].head)
                 /\ FirstLeafTarget(r[i].kids, nps[i].kids)

\* C10 as stated: a section created with an empty target and having two or
\* more document or link leaf children ends with the target of its first
\* leaf child, and a section with a target of its own keeps it.
BackfillFirstLeaf ==
    \A p \in 1..Len(zip) :
        EntryOfNcx(zip[p]) => FirstLeafTarget(toc, zip[p].content.navMap)

RECURSIVE FirstNonEmptyLeafTarget(_, _)
FirstNonEmptyLeafTarget(nodes, nps) ==
    LET r == Rendered(nodes)
    IN  /\ Len(r) = Len(nps)
        /\ \A i \in 1..Len(r) :
              r[i].t = "tuple" =>
                 /\ nps[i].src =
                       IF SectionHref(r[i].head) = ""
                       THEN FirstNonEmpty(LeafTargets(r[i].kids))
                       ELSE SectionHref(r[i].head)
                 /\ FirstNonEmptyLeafTarget(r[i].kids, nps[i].kids)

\* C10, amended: in the NCX a section created with an empty target ends with
\* the target of its first document or link leaf child whose target is not
\* empty (and stays empty when there is none); later children never
\* overwrite it, and a section with a target of its own keeps it.
BackfillFirstNonEmptyLeaf ==
    \A p \in 1..Len(zip) :
        EntryOfNcx(zip[p]) =>
            FirstNonEmptyLeafTarget(toc, zip[p].content.navMap)

BackfillFirstNonEmptyLeafWitness ==
    /\ \E p \in 1..Len(zip) : EntryOfNcx(zip[p])
    /\ \E i \in 1..Len(toc) :
          /\ toc[i].t = "tuple"
          /\ SectionHref(toc[i].head) = ""
          /\ LeafTargets(toc[i].kids) = <<"a.xhtml", "b.html">>

(***************************************************************************)
(* split.py. A text is the sequence of its characters. PATTERN_TITLE is    *)
(* ^#{1,6}\s with re.M: a match starts at the start of the text or after a *)
(* newline, and is one to six '#' followed by one whitespace character;    *)
(* seven '#' in a row do not match. Matches never overlap.                 *)
(***************************************************************************)
MaxText == 5

IsSpace(c) == c \in {" ", "\n", "\t"}

\* PATTERN_TITLE matches at position p of text
MatchAt(text, p) ==
    /\ p = 1 \/ text[p - 1] = "\n"
    /\ \E k \in 1..6 :
          /\ p + k <= Len(text)
          /\ \A j \in p..(p + k - 1) : text[j] = "#"
          /\ IsSpace(text[p + k])

\* the starts of PATTERN_TITLE.finditer(text)
Matches(text) == { p \in 1..Len(text) : MatchAt(text, p) }

\* next(its) on an exhausted iterator: StopIteration inside the generator,
\* which the caller sees as RuntimeError
SplitRaises(text) == Matches(text) = {}

RECURSIVE SplitFrom(_, _, _)
\* the for loop of lines 13-17, with pos0 and the matches still to come
SplitFrom(text, pos0, its) ==
    IF its = {}
    THEN << SubSeq(text, pos0, Len(text)) >>
    ELSE LET pos1 == CHOOSE p \in its : \A q \in its : p <= q
         IN  << SubSeq(text, pos0, pos1 - 1) >>
             \o SplitFrom(text, pos1, its \ {pos1})

\* list(_split_chapters(text)), for a text on which it does not raise
split_chapters(text) ==
    LET its == Matches(text)
        first == CHOOSE p \in its : \A q \in its : p <= q
    IN  SplitFrom(text, first, its \ {first})

\* the sample of test_sc: '# a\nabc\n## b\nBCD\n'
Sample ==
    << "#", " ", "a", "\n", "a", "b", "c", "\n",
       "#", "#", " ", "b", "\n", "B", "C", "D", "\n" >>

TextChars == {"#", " ", "\n", "a"}

Texts ==
    UNION { [1..n -> TextChars] : n \in 0..MaxText } \cup { Sample }

(***************************************************************************)
(* SpecSplit: _split_chapters applied to one text.                         *)
(***************************************************************************)
InitSplit ==
    /\ items = <<>>
    /\ id_html = 0
    /\ id_image = 0
    /\ id_static = 0
    /\ pages = <<>>
    /\ book_title = ""
    /\ metadata = EmptyDict
    /\ spine = <<>>
    /\ guide = <<>>
    /\ toc = <<>>
    /\ zip = <<>>
    /\ zipOpen = FALSE
    /\ pc = "build"
    /\ wi = 0
    /\ calls = <<>>
    /\ mcalls = <<>>
    /\ disk \in { [manifest |-> None, text |-> t] : t \in Texts }
    /\ chapters = <<>>
    /\ cpc = "split"

\* list(_split_chapters(text))
SplitChapters ==
    /\ cpc = "split"
    /\ IF SplitRaises(disk.text)
       THEN cpc' = "split_raised" /\ UNCHANGED chapters
       ELSE cpc' = "split_done" /\ chapters' = split_chapters(disk.text)
    /\ UNCHANGED <<items, id_html, id_image, id_static, pages, book_title,
                   metadata, spine, guide, toc, zip, zipOpen, pc, wi, calls,
                   mcalls, disk>>

NextSplit == SplitChapters

SpecSplit == InitSplit /\ [][NextSplit]_vars

RECURSIVE HeadingsAsc(_)
\* the heading starts of a text, in ascending order
HeadingsAsc(ps) ==
    IF ps = {} THEN <<>>
    ELSE LET p == CHOOSE x \in ps : \A y \in ps : x <= y
         IN  <<p>> \o HeadingsAsc(ps \ {p})

\* the segments the claim describes: the text before the first heading, then
\* one segment per heading up to the next heading or the end of the text
ClaimedSegments(text) ==
    LET hs == HeadingsAsc(Matches(text))
    IN  << SubSeq(text, 1, hs[1] - 1) >>
        \o [i \in 1..Len(hs) |->
               SubSeq(text, hs[i],
                      IF i < Len(hs) THEN hs[i + 1] - 1 ELSE Len(text))]

\* C12: _split_chapters yields first the text before the first heading (the
\* empty string when the text begins with a heading) and then one segment per
\* heading running to the next heading or the end of the text; the sample of
\* test_sc yields ['', '# a\nabc\n', '## b\nBCD\n'].
SplitYieldsPreambleFirst ==
    cpc = "split_done" => chapters = ClaimedSegments(disk.text)

(***************************************************************************)
(* The metadata registry's other operations (EpubBook.set_unique_metadata, *)
(* get_metadata, set_uid). `others` is a record; NoOthers is others=None.  *)
(***************************************************************************)

IDENTIFIER_ID == [id |-> "id"]

\* set_unique_metadata that always adds
set_unique_metadata_adding(md, namespace, name, value, others) ==
    add_metadata(md, NAMESPACES(namespace), name, value, others)

set_unique_metadata(md, namespace, name, value, others) ==
    LET ns == NAMESPACES(namespace)
    IN  IF ns \in DOMAIN md /\ name \in DOMAIN md[ns]
        THEN [md EXCEPT ![ns][name] = << <<value, others>> >>]
        ELSE add_metadata(md, ns, name, value, others)

\* set_uid's effect on the registry
set_uid(md, uid) == set_unique_metadata(md, "DC", "identifier", uid,
                                        IDENTIFIER_ID)

\* self.metadata[namespace] raising KeyError
GetMetadataRaises(md, namespace) == NAMESPACES(namespace) \notin DOMAIN md

\* get_metadata's return value, when it does not raise
get_metadata(md, namespace, name) ==
    LET byName == md[NAMESPACES(namespace)]
    IN  IF name \in DOMAIN byName THEN byName[name] ELSE <<>>

(***************************************************************************)
(* SpecMeta: a fresh book and any MaxCalls calls on its registry.          *)
(***************************************************************************)
MaxCalls == 3

MetaNamespaces == {"DC", NS_DC}
MetaNames == {"identifier", "title"}
MetaValues == {"a", "b"}

MCall(op, ns, name, value, others, raised, result) ==
    [op |-> op, ns |-> ns, name |-> name, value |-> value, others |-> others,
     raised |-> raised, result |-> result]

MetaFrame ==
    UNCHANGED <<items, id_html, id_image, id_static, pages, book_title, spine,
                guide, toc, zip, zipOpen, pc, wi, calls, disk, chapters, cpc>>

AddMetadata(ns, name, value) ==
    /\ pc = "build"
    /\ Len(mcalls) < MaxCalls
    /\ metadata' = add_metadata(metadata, ns, name, value, NoOthers)
    /\ mcalls' = Append(mcalls, MCall("add_metadata", ns, name, value,
                                      NoOthers, FALSE, <<>>))
    /\ MetaFrame

SetUniqueMetadata(ns, name, value) ==
    /\ pc = "build"
    /\ Len(mcalls) < MaxCalls
    /\ metadata' = set_unique_metadata(metadata, ns, name, value, NoOthers)
    /\ mcalls' = Append(mcalls, MCall("set_unique_metadata", ns, name, value,
                                      NoOthers, FALSE, <<>>))
    /\ MetaFrame

SetUid(uid) ==
    /\ pc = "build"
    /\ Len(mcalls) < MaxCalls
    /\ metadata' = set_uid(metadata, uid)
    /\ mcalls' = Append(mcalls, MCall("set_uid", "DC", "identifier", uid,
                                      IDENTIFIER_ID, FALSE, <<>>))
    /\ MetaFrame

GetMetadata(ns, name) ==
    /\ pc = "build"
    /\ Len(mcalls) < MaxCalls
    /\ mcalls' = Append(mcalls,
          IF GetMetadataRaises(metadata, ns)
          THEN MCall("get_metadata", ns, name, "", NoOthers, TRUE, <<>>)
          ELSE MCall("get_metadata", ns, name, "", NoOthers, FALSE,
                     get_metadata(metadata, ns, name)))
    /\ UNCHANGED metadata
    /\ MetaFrame

NextMeta ==
    \/ \E ns \in MetaNamespaces, name \in MetaNames, value \in MetaValues :
          AddMetadata(ns, name, value)
    \/ \E ns \in MetaNamespaces, name \in MetaNames, value \in MetaValues :
          SetUniqueMetadata(ns, name, value)
    \/ \E uid \in MetaValues : SetUid(uid)
    \/ \E ns \in MetaNamespaces \cup {"OPF"},
          name \in MetaNames \cup {"generator"} : GetMetadata(ns, name)

SpecMeta == Init /\ [][NextMeta]_vars

\* the namespace a call names, as the registry keys it
KeyOf(ns) == IF ns = "DC" THEN NS_DC ELSE IF ns = "OPF" THEN NS_OPF ELSE ns

\* the list stored for (ns, name), empty when there is none
Stored(ns, name) ==
    IF ns \in DOMAIN metadata /\ name \in DOMAIN metadata[ns]
    THEN metadata[ns][name]
    ELSE <<>>

RECURSIVE RefList(_, _, _)
\* the reference multimap's list for (ns, name) after the first n calls
RefList(ns, name, n) ==
    IF n = 0
    THEN IF ns = NS_OPF /\ name = "generator"
         THEN << <<"", [name |-> "generator", content |-> "md2epub.epublib"]>> >>
         ELSE <<>>
    ELSE LET c == mcalls[n]
             before == RefList(ns, name, n - 1)
         IN  IF KeyOf(c.ns) # ns \/ c.name # name \/ c.op = "get_metadata"
             THEN before
             ELSE IF c.op = "add_metadata"
             THEN Append(before, <<c.value, c.others>>)
             ELSE << <<c.value, c.others>> >>

WritesTo(c, ns, name) ==
    c.op # "get_metadata" /\ KeyOf(c.ns) = ns /\ c.name = name

\* C13: after any sequence of add and upsert calls the list stored for each
\* (namespace, name) is the reference multimap's: the pair of the most recent
\* upsert followed by the pairs added since, in insertion order; when the
\* last write to the DC identifier is a set_uid the registry holds exactly
\* that one identifier entry.
RegistryIsReference ==
    /\ \A ns \in {NS_DC, NS_OPF}, name \in MetaNames \cup {"generator"} :
          Stored(ns, name) = RefList(ns, name, Len(mcalls))
    /\ \A n \in 1..Len(mcalls) :
          /\ mcalls[n].op = "set_uid"
          /\ \A k \in (n + 1)..Len(mcalls) :
                ~WritesTo(mcalls[k], NS_DC, "identifier")
          => Stored(NS_DC, "identifier") =
                << <<mcalls[n].value, IDENTIFIER_ID>> >>

RegistryIsReferenceWitness ==
    /\ Len(mcalls) = 3
    /\ mcalls[1].op = "add_metadata"
    /\ mcalls[2].op \in {"set_unique_metadata", "set_uid"}
    /\ mcalls[3].op = "add_metadata"
    /\ \A n \in 1..3 : WritesTo(mcalls[n], NS_DC, "identifier")
    /\ Len(Stored(NS_DC, "identifier")) = 2

\* C14: get_metadata(namespace, name) returns the stored list when there is
\* one and an empty list, without raising, when there is none, also when
\* nothing was ever added under the namespace.
GetMetadataNeverRaises ==
    \A n \in 1..Len(mcalls) :
        mcalls[n].op = "get_metadata" =>
            /\ ~mcalls[n].raised
            /\ mcalls[n].result =
                  RefList(KeyOf(mcalls[n].ns), mcalls[n].name, n - 1)

(***************************************************************************)
(* SpecPages: insertions of documents that carry page markers in their     *)
(* pages list (EpubHtml.pages, set by the caller), with and without an id. *)
(***************************************************************************)
\* item.pages = pgs
WithPages(item, pgs) == [item EXCEPT !.pages = pgs]

PageTriple == <<"chp1.xhtml", "p1", "1">>

PageItemArgs ==
    { WithPages(EpubHtml(uid, Chp1File, "", PagedBody, "b"), pgs) :
        uid \in {"", "c1"}, pgs \in {<<>>, <<PageTriple>>} }
    \cup { EpubImage("", PngFile, "", Content("png", <<>>)),
           EpubItem("", CssFile, "", Content("css", <<>>), TRUE) }

NextPages == \E item \in PageItemArgs : AddItem(item)

SpecPages == Init /\ [][NextPages]_vars

RECURSIVE MarkersOf(_)
\* the page markers of the content documents among the inserted items
MarkersOf(its) ==
    IF its = <<>> THEN <<>>
    ELSE (IF Head(its).cls \in {"EpubHtml", "EpubCoverHtml", "EpubNav"}
          THEN Head(its).pages ELSE <<>>) \o MarkersOf(Tail(its))

\* C15: every insertion of a content document appends the document's page
\* markers to the book's page list, with an explicit id as with an empty
\* one, and inserting any other item leaves the page list unchanged.
PagesFollowInsertions == pages = MarkersOf(calls)

(***************************************************************************)
(* The manifest block and the archive entries of the items (Spec).         *)
(***************************************************************************)
RECURSIVE FlaggedItems(_)
\* the items whose manifest flag is set, in item order
FlaggedItems(its) ==
    IF its = <<>> THEN <<>>
    ELSE (IF Head(its).manifest THEN <<Head(its)>> ELSE <<>>)
         \o FlaggedItems(Tail(its))

\* C16: the package manifest lists exactly the items whose manifest flag is
\* set, one entry each in item order; when write() returns every item has an
\* archive entry; an item whose manifest flag is unset is written at its
\* literal file path, without the content folder's prefix.
ManifestListsFlaggedItems ==
    /\ \A p \in 1..Len(zip) :
          zip[p].content.t = "opf" =>
             LET fl == FlaggedItems(items)
                 m == zip[p].content.manifest
             IN  /\ Len(m) = Len(fl)
                 /\ \A i \in 1..Len(m) :
                       /\ m[i].id = fl[i].uid
                       /\ m[i].href = PathStr(fl[i].file_name)
    /\ pc \in {"returned", "done"} =>
          \A i \in 1..Len(items) :
             Cardinality({p \in 1..Len(zip) : zip[p].item = i}) = 1
    /\ \A p \in 1..Len(zip) :
          zip[p].item # 0 /\ ~items[zip[p].item].manifest =>
             zip[p].name = PathStr(items[zip[p].item].file_name)

ManifestListsFlaggedItemsWitness ==
    /\ pc = "done"
    /\ \E p, q \in 4..Len(zip) :
          /\ ~items[zip[p].item].manifest
          /\ zip[p].name = "style/nav.css"
          /\ items[zip[q].item].manifest
          /\ Len(zip[3].content.manifest) = Len(items) - 1

(***************************************************************************)
(* SpecExit: the writer run on a book of at most MaxBook items. Fairness   *)
(* is on __exit__ alone: `with EpubWriter(book) as writer: writer.write()` *)
(* runs __exit__ once write() has returned or raised.                      *)
(***************************************************************************)
MaxBook == 2

RECURSIVE BuildBook(_)
\* the book after add_item of each item of the sequence
BuildBook(its) ==
    IF its = <<>>
    THEN [items |-> <<>>, id_html |-> 0, id_image |-> 0, id_static |-> 0,
          pages |-> <<>>]
    ELSE add_item(BuildBook(SubSeq(its, 1, Len(its) - 1)), its[Len(its)])

InitExit ==
    \E its \in UNION { [1..n -> NavItemArgs] : n \in 0..MaxBook } :
       LET b == BuildBook(its)
       IN  /\ items = b.items
           /\ id_html = b.id_html
           /\ id_image = b.id_image
           /\ id_static = b.id_static
           /\ pages = b.pages
           /\ book_title = ""
           /\ metadata = add_metadata(EmptyDict, "OPF", "generator", "",
                            [name |-> "generator",
                             content |-> "md2epub.epublib"])
           /\ spine = <<>>
           /\ guide \in { <<>> } \cup { <<g>> : g \in GuideArgs }
           /\ toc = <<>>
           /\ zip = <<>>
           /\ zipOpen = FALSE
           /\ pc = "build"
           /\ wi = 0
           /\ calls = its
           /\ mcalls = <<>>
           /\ disk = NoDisk
           /\ chapters = <<>>
           /\ cpc = "lib"

NextExit == Writer

SpecExit == InitExit /\ [][NextExit]_vars /\ WF_vars(Exit)

\* C17: on every exit path of the write pass, the return of write() and an
\* exception raised partway through it, the archive handle the writer opened
\* is eventually closed; entries once written stay in the archive.
HandleClosedNoRollback ==
    /\ (pc \in {"returned", "raised"}) ~> ~zipOpen
    /\ [][/\ Len(zip') >= Len(zip)
          /\ SubSeq(zip', 1, Len(zip)) = zip]_vars

HandleClosedNoRollbackWitness ==
    /\ pc = "failed"
    /\ ~zipOpen
    /\ Len(zip) > 3
    /\ Len(zip) < 3 + Len(items)

(***************************************************************************)
(* create_epub (md2epub/core.py) with parse (parser.py) and split_files    *)
(* (split.py). disk is what the run finds: the manifest file ("ok", or the *)
(* exception loading it raises), the cover file and the chapter files.     *)
(* parse() opens and reads every chapter file (unpacking the chapters for  *)
(* chain runs split_files to its end) and leaves one unstarted             *)
(* _split_chapters                                                         *)
(* generator per file; the generators run when create_epub builds          *)
(* epub_htmls.                                                             *)
(***************************************************************************)
MaxFiles == 2

RECURSIVE Str(_)
\* the str of a sequence of characters
Str(cs) == IF cs = <<>> THEN "" ELSE Head(cs) \o Str(Tail(cs))

RECURSIVE FirstLine(_)
\* chapter.split('\n', 1)[0]
FirstLine(cs) ==
    IF cs = <<>> \/ Head(cs) = "\n" THEN <<>>
    ELSE <<Head(cs)>> \o FirstLine(Tail(cs))

RECURSIVE LStripHash(_)
\* .lstrip('#')
LStripHash(cs) ==
    IF cs # <<>> /\ Head(cs) = "#" THEN LStripHash(Tail(cs)) ELSE cs

RECURSIVE LStrip(_)
LStrip(cs) == IF cs # <<>> /\ IsSpace(Head(cs)) THEN LStrip(Tail(cs)) ELSE cs

RECURSIVE RStrip(_)
RStrip(cs) ==
    IF cs # <<>> /\ IsSpace(cs[Len(cs)])
    THEN RStrip(SubSeq(cs, 1, Len(cs) - 1)) ELSE cs

\* .strip()
Strip(cs) == RStrip(LStrip(cs))

\* line 29: the title of a chapter
ChapterTitle(chapter) == Str(Strip(LStripHash(FirstLine(chapter))))

\* the number of '#' a chapter starts with
HeadingLevel(chapter) == Len(FirstLine(chapter)) - Len(LStripHash(FirstLine(chapter)))

\* what follows the chapter's first line
AfterFirstLine(chapter) ==
    SubSeq(chapter, Len(FirstLine(chapter)) + 2, Len(chapter))

\* markdown.convert(chapter).encode(): the heading element of the first
\* line and, when text follows, one paragraph of it (inline markup and the
\* block structure of the following text are not modelled)
MarkdownConvert(chapter) ==
    LET h == "h" \o ToString(HeadingLevel(chapter))
        t == ChapterTitle(chapter)
        rest == Strip(AfterFirstLine(chapter))
    IN  Content("<" \o h \o ">" \o t \o "</" \o h \o ">"
                \o (IF rest = <<>> THEN ""
                    ELSE "<p>" \o Str(rest) \o "</p>"),
                <<Elem(FALSE, None, t, None, None)>>
                \o (IF rest = <<>> THEN <<>>
                    ELSE <<Elem(FALSE, None, Str(rest), None, None)>>))

Manifest(loads, cover) ==
    [loads |-> loads, id |-> "urn:uuid:1", title |-> "Book",
     language |-> "en", authors |-> <<"A">>, cover |-> cover]

File(ok, text) == [ok |-> ok, text |-> text]

CreateTexts ==
    { Sample,
      <<"#", " ", "a", "\n">>,
      <<"a", "\n", "#", " ", "a", "\n">>,
      <<"a", "b", "c", "\n">> }

CreateFiles ==
    { File(FALSE, <<>>) } \cup { File(TRUE, t) : t \in CreateTexts }

Disks ==
    { [manifest |-> Manifest(l, c), cover_ok |-> k, files |-> fs] :
        l \in {"ok", "KeyError", "OSError"},
        c \in {None, "cover.png"},
        k \in BOOLEAN,
        fs \in UNION { [1..n -> CreateFiles] : n \in 0..MaxFiles } }

InitCreate ==
    /\ items = <<>>
    /\ id_html = 0
    /\ id_image = 0
    /\ id_static = 0
    /\ pages = <<>>
    /\ book_title = ""
    /\ metadata = add_metadata(EmptyDict, "OPF", "generator", "",
                     [name |-> "generator", content |-> "md2epub.epublib"])
    /\ spine = <<>>
    /\ guide = <<>>
    /\ toc = <<>>
    /\ zip = <<>>
    /\ zipOpen = FALSE
    /\ pc = "build"
    /\ wi = 0
    /\ calls = <<>>
    /\ mcalls = <<>>
    /\ disk \in Disks
    /\ chapters = <<>>
    /\ cpc = "start"

\* line 11, parse(path): _load_manifest, then every chapter file opened and
\* read; the exception of the first failure goes to the caller
CreateParse ==
    /\ cpc = "start"
    /\ IF disk.manifest.loads # "ok"
          \/ \E i \in 1..Len(disk.files) : ~disk.files[i].ok
       THEN cpc' = "load_failed" /\ UNCHANGED chapters
       ELSE /\ cpc' = "parsed"
            /\ chapters' = [i \in 1..Len(disk.files) |->
                              [text |-> disk.files[i].text]]
    /\ UNCHANGED <<items, id_html, id_image, id_static, pages, book_title,
                   metadata, spine, guide, toc, zip, zipOpen, pc, wi, calls,
                   mcalls, disk>>

RECURSIVE AddAuthors(_, _)
\* lines 17-18: add_author for each author
AddAuthors(md, authors) ==
    IF authors = <<>> THEN md
    ELSE AddAuthors(add_metadata(md, "DC", "creator", Head(authors),
                                 [id |-> "creator"]), Tail(authors))

\* lines 13-24: the book, its identity and its cover
CreateHead ==
    /\ cpc = "parsed"
    /\ LET m == disk.manifest
           md1 == set_uid(metadata, m.id)
           md2 == add_metadata(md1, "DC", "title", m.title, NoOthers)
           md3 == add_metadata(md2, "DC", "language", m.language, NoOthers)
           md4 == AddAuthors(md3, m.authors)
           c == [EpubCover("cover-img", PngFile)
                   EXCEPT !.content = Content("png", <<>>)]
           page == EpubCoverHtml("cover", FN("", "cover", ".xhtml"),
                                 PathStr(PngFile), "Cover")
       IN  /\ book_title' = m.title
           /\ IF m.cover = None
              THEN /\ metadata' = md4
                   /\ cpc' = "headed"
                   /\ UNCHANGED <<items, id_html, id_image, id_static, pages,
                                  toc, spine, calls>>
              ELSE IF ~disk.cover_ok
              THEN /\ metadata' = md4
                   /\ cpc' = "load_failed"
                   /\ UNCHANGED <<items, id_html, id_image, id_static, pages,
                                  toc, spine, calls>>
              ELSE /\ SetBook(add_item(add_item(Book, c), page))
                   /\ calls' = calls \o <<c, page>>
                   /\ metadata' = add_metadata(md4, None, "meta", "",
                                     [name |-> "cover", content |-> "cover-img"])
                   /\ toc' = Append(toc, TocStr("cover"))
                   /\ spine' = Append(spine,
                                      SpineEntry(SpineStr("cover"), FALSE, None))
                   /\ cpc' = "headed"
    /\ UNCHANGED <<guide, zip, zipOpen, pc, wi, mcalls, disk, chapters>>

RECURSIVE ChainRaises(_)
\* running the chained generators: one of them raises
ChainRaises(gens) ==
    gens # <<>> /\ (SplitRaises(Head(gens).text) \/ ChainRaises(Tail(gens)))

RECURSIVE Chain(_)
\* the chained generators run to their end
Chain(gens) ==
    IF gens = <<>> THEN <<>>
    ELSE split_chapters(Head(gens).text) \o Chain(Tail(gens))

\* lines 26-34: epub_htmls
CreateConvert ==
    /\ cpc = "headed"
    /\ IF ChainRaises(chapters)
       THEN cpc' = "load_failed" /\ UNCHANGED chapters
       ELSE /\ cpc' = "converted"
            /\ chapters' =
                 LET segs == Chain(chapters)
                 IN  [i \in 1..Len(segs) |->
                        EpubHtml("", FN("", "chp" \o ToString(i - 1), ".xhtml"),
                                 "", MarkdownConvert(segs[i]),
                                 ChapterTitle(segs[i]))]
    /\ UNCHANGED <<items, id_html, id_image, id_static, pages, book_title,
                   metadata, spine, guide, toc, zip, zipOpen, pc, wi, calls,
                   mcalls, disk>>

RECURSIVE AddAll(_, _)
\* lines 35-36: add_item for each chapter
AddAll(b, its) ==
    IF its = <<>> THEN b ELSE AddAll(add_item(b, Head(its)), Tail(its))

StyleNav ==
    EpubItem("style_nav", CssFile, "text/css", Content("css", <<>>), TRUE)

NavSpineEntry == SpineEntry(SpineStr("nav"), FALSE, None)

\* lines 35-88 with spine.extend(epub_htmls) ahead of spine.append('nav')
CreateAssembleNavLast ==
    /\ cpc = "converted"
    /\ LET n0 == Len(items)
           n == Len(chapters)
           b1 == AddAll(Book, chapters)
           b2 == add_item(add_item(b1, DefaultNcx), DefaultNav)
           b3 == add_item(b2, StyleNav)
       IN  /\ SetBook(b3)
           /\ toc' = toc \o [i \in 1..n |-> TocOfItem(b1.items[n0 + i])]
           /\ spine' = spine
                       \o [i \in 1..n |-> SpineEntry(SpineObj(n0 + i), FALSE, None)]
                       \o <<NavSpineEntry>>
           /\ calls' = calls \o chapters \o <<DefaultNcx, DefaultNav, StyleNav>>
    /\ cpc' = "write"
    /\ UNCHANGED <<book_title, metadata, guide, zip, zipOpen, pc, wi, mcalls,
                   disk, chapters>>

\* lines 35-88: the chapters, the TOC, the navigation items, the spine and
\* the stylesheet
CreateAssemble ==
    /\ cpc = "converted"
    /\ LET n0 == Len(items)
           n == Len(chapters)
           b1 == AddAll(Book, chapters)
           b2 == add_item(add_item(b1, DefaultNcx), DefaultNav)
           b3 == add_item(b2, StyleNav)
       IN  /\ SetBook(b3)
           /\ toc' = toc \o [i \in 1..n |-> TocOfItem(b1.items[n0 + i])]
           /\ spine' = spine \o <<NavSpineEntry>>
                       \o [i \in 1..n |-> SpineEntry(SpineObj(n0 + i), FALSE, None)]
           /\ calls' = calls \o chapters \o <<DefaultNcx, DefaultNav, StyleNav>>
    /\ cpc' = "write"
    /\ UNCHANGED <<book_title, metadata, guide, zip, zipOpen, pc, wi, mcalls,
                   disk, chapters>>

\* the writer constructed as soon as the book exists
WriterStartsEarly == cpc \in {"headed", "converted", "write"}

\* lines 92-93 come after lines 11-88
WriterStarts == cpc = "write"

\* lines 92-93: with epub.EpubWriter(book) as writer: writer.write()
CreateWrite == WriterStarts /\ Writer

\* line 95, or the exception of write() leaving create_epub
CreateReturn ==
    /\ cpc = "write"
    /\ pc \in {"done", "failed"}
    /\ cpc' = IF pc = "done" THEN "returned" ELSE "raised"
    /\ UNCHANGED <<items, id_html, id_image, id_static, pages, book_title,
                   metadata, spine, guide, toc, zip, zipOpen, pc, wi, calls,
                   mcalls, disk, chapters>>

NextCreate ==
    \/ CreateParse
    \/ CreateHead
    \/ CreateConvert
    \/ CreateAssemble
    \/ CreateWrite
    \/ CreateReturn

SpecCreate == InitCreate /\ [][NextCreate]_vars

\* C11: when the manifest names a cover image, the book's TOC and spine each
\* begin with the cover entry, and in the spine the cover entry precedes the
\* navigation document's entry, which precedes every chapter's entry.
CoverLeadsTocAndSpine ==
    cpc \in {"write", "returned", "raised"} /\ disk.manifest.cover # None =>
       /\ Len(toc) >= 1 /\ toc[1] = TocStr("cover")
       /\ Len(spine) >= 2
       /\ spine[1] = SpineEntry(SpineStr("cover"), FALSE, None)
       /\ spine[2] = SpineEntry(SpineStr("nav"), FALSE, None)
       /\ \A k \in 3..Len(spine) :
             /\ spine[k].ref.t = "obj"
             /\ items[spine[k].ref.i].cls = "EpubHtml"
       /\ \A i \in 1..Len(items) :
             items[i].cls = "EpubHtml" =>
                \E k \in 3..Len(spine) :
                   spine[k].ref.t = "obj" /\ spine[k].ref.i = i

CoverLeadsTocAndSpineWitness ==
    /\ cpc = "returned"
    /\ disk.manifest.cover # None
    /\ Len(spine) >= 4
    /\ Len(toc) >= 3

\* C18: every failure of loading the input (the manifest, a chapter file,
\* the cover file, a chapter text that cannot be split) reaches the caller
\* before the output archive is created.
LoadFailureBeforeArchive ==
    cpc = "load_failed" => zip = <<>> /\ ~zipOpen

LoadFailureBeforeArchiveWitness ==
    /\ cpc = "load_failed"
    /\ disk.manifest.loads = "ok"
    /\ items # <<>>
    /\ \E i \in 1..Len(chapters) : SplitRaises(chapters[i].text)

(***************************************************************************)
(* The NCX backfill and subsection children.                               *)
(***************************************************************************)
\* the targets the direct children of a section are created with: a leaf's
\* href, a subsection's heading target
ChildTargets(kids) ==
    LET r == Rendered(kids)
    IN  [i \in 1..Len(r) |->
           IF r[i].t = "tuple" THEN SectionHref(r[i].head) ELSE r[i].href]

RECURSIVE FirstChildTarget(_, _)
FirstChildTarget(nodes, nps) ==
    LET r == Rendered(nodes)
    IN  /\ Len(r) = Len(nps)
        /\ \A i \in 1..Len(r) :
              r[i].t = "tuple" =>
                 /\ nps[i].src =
                       IF SectionHref(r[i].head) = ""
                       THEN FirstNonEmpty(ChildTargets(r[i].kids))
                       ELSE SectionHref(r[i].head)
                 /\ FirstChildTarget(r[i].kids, nps[i].kids)

\* C19: in the NCX a section created with an empty target ends with the
\* target of the first of its direct children that has one, whatever kind
\* the child is: a subsection whose heading is a document or a link gives
\* its target to the parent, and a later leaf sibling does not replace it.
BackfillFirstChildOfAnyKind ==
    \A p \in 1..Len(zip) :
        EntryOfNcx(zip[p]) => FirstChildTarget(toc, zip[p].content.navMap)

(***************************************************************************)
(* The write pass and the book it reads.                                   *)
(***************************************************************************)
\* C20: the write pass leaves the book unchanged: no step of the writer
\* changes the items (ids, file paths, media types, stored content), the
\* spine, the TOC, the guide, the page list or the metadata registry.
WritePassLeavesBookUnchanged ==
    [][Writer => UNCHANGED <<items, spine, toc, guide, pages, metadata>>]_vars

(***************************************************************************)
(* EpubItem.type (items.py) and the extension table (consts.py). File      *)
(* names are sequences of characters here. In _EXTENSIONS a parenthesised  *)
(* string without a comma is a str, not a tuple: the comprehension that    *)
(* builds EXTENSIONS iterates over its characters.                         *)
(***************************************************************************)
\* iterating over a tuple of strings: the strings
OfTuple(strs) == strs

\* iterating over a str: its characters
OfStr(chars) == [i \in 1..Len(chars) |-> chars[i]]

\* lines 21-32, in the order of the dict: the type and what iterating over
\* its value yields
EXTENSION_TABLE ==
    << <<"IMAGE", OfTuple(<<".jpg", ".jpeg", ".gif", ".tiff", ".tif", ".png">>)>>,
       <<"STYLE", OfStr(<<".", "c", "s", "s">>)>>,
       <<"VECTOR", OfStr(<<".", "s", "v", "g">>)>>,
       <<"FONT", OfTuple(<<".otf", ".woff", ".ttf">>)>>,
       <<"SCRIPT", OfStr(<<".", "j", "s">>)>>,
       <<"NAVIGATION", OfStr(<<".", "n", "c", "x">>)>>,
       <<"VIDEO", OfTuple(<<".mov", ".mp4", ".avi">>)>>,
       <<"AUDIO", OfTuple(<<".mp3", ".ogg">>)>>,
       <<"COVER", OfTuple(<<".jpg", ".jpeg", ".png">>)>>,
       <<"SMIL", OfStr(<<".", "s", "m", "i", "l">>)>> >>

HasKey(row, key) == \E j \in 1..Len(row[2]) : row[2][j] = key

\* lines 33-35 and EXTENSIONS.get(key, ItemType.UNKNOWN): in the dict
\* comprehension a later pair replaces an earlier one with the same key
ExtensionsGet(key) ==
    IF \E i \in 1..Len(EXTENSION_TABLE) : HasKey(EXTENSION_TABLE[i], key)
    THEN EXTENSION_TABLE[CHOOSE i \in 1..Len(EXTENSION_TABLE) :
            /\ HasKey(EXTENSION_TABLE[i], key)
            /\ \A k \in (i + 1)..Len(EXTENSION_TABLE) :
                  ~HasKey(EXTENSION_TABLE[k], key)][1]
    ELSE "UNKNOWN"

\* the position of the last c in chars, 0 when there is none
LastIndexOf(chars, c) ==
    IF \E i \in 1..Len(chars) : chars[i] = c
    THEN CHOOSE i \in 1..Len(chars) :
            chars[i] = c /\ \A k \in (i + 1)..Len(chars) : chars[k] # c
    ELSE 0

\* posixpath.splitext(p)[1]: from the last dot of the last path component,
\* unless only dots precede it in that component
SplitextExt(p) ==
    LET sepIndex == LastIndexOf(p, "/")
        dotIndex == LastIndexOf(p, ".")
    IN  IF dotIndex > sepIndex
           /\ \E k \in (sepIndex + 1)..(dotIndex - 1) : p[k] # "."
        THEN SubSeq(p, dotIndex, Len(p))
        ELSE <<>>

UpperCase == <<"C", "S", "J", "N", "X", "V", "G", "M", "P", "O", "T", "F">>
LowerCase == <<"c", "s", "j", "n", "x", "v", "g", "m", "p", "o", "t", "f">>

\* str.lower() on the characters used
LowerChar(c) ==
    IF \E i \in 1..Len(UpperCase) : UpperCase[i] = c
    THEN LowerCase[CHOOSE i \in 1..Len(UpperCase) : UpperCase[i] = c]
    ELSE c

Lower(chars) == [i \in 1..Len(chars) |-> LowerChar(chars[i])]

UpperChar(c) ==
    IF \E i \in 1..Len(LowerCase) : LowerCase[i] = c
    THEN UpperCase[CHOOSE i \in 1..Len(LowerCase) : LowerCase[i] = c]
    ELSE c

Upper(chars) == [i \in 1..Len(chars) |-> UpperChar(chars[i])]

\* EpubItem.type, lines 48-55
item_type(file_name) == ExtensionsGet(Str(Lower(SplitextExt(file_name))))

TypeExts ==
    { <<".", "j", "p", "g">>,
      <<".", "j", "p", "e", "g">>,
      <<".", "g", "i", "f">>,
      <<".", "t", "i", "f", "f">>,
      <<".", "t", "i", "f">>,
      <<".", "p", "n", "g">>,
      <<".", "c", "s", "s">>,
      <<".", "s", "v", "g">>,
      <<".", "o", "t", "f">>,
      <<".", "w", "o", "f", "f">>,
      <<".", "t", "t", "f">>,
      <<".", "j", "s">>,
      <<".", "n", "c", "x">>,
      <<".", "m", "o", "v">>,
      <<".", "m", "p", "4">>,
      <<".", "a", "v", "i">>,
      <<".", "m", "p", "3">>,
      <<".", "o", "g", "g">>,
      <<".", "s", "m", "i", "l">>,
      <<".", "x", "y", "z">>,
      <<".", "x", "h", "t", "m", "l">>,
      <<".", "c">>,
      <<".", "s">>,
      <<".">>,
      <<>> }

TypeNames ==
    { d \o b \o e : d \in { <<>>, <<"d", ".", "x", "/">> },
                    b \in { <<"a">>, <<>>, <<".">>, <<"a", ".", "b">> },
                    e \in TypeExts \cup { Upper(x) : x \in TypeExts } }

InitType ==
    /\ items = <<>>
    /\ id_html = 0
    /\ id_image = 0
    /\ id_static = 0
    /\ pages = <<>>
    /\ book_title = ""
    /\ metadata = EmptyDict
    /\ spine = <<>>
    /\ guide = <<>>
    /\ toc = <<>>
    /\ zip = <<>>
    /\ zipOpen = FALSE
    /\ pc = "build"
    /\ wi = 0
    /\ calls = <<>>
    /\ mcalls = <<>>
    /\ disk \in { [manifest |-> None, file_name |-> n] : n \in TypeNames }
    /\ chapters = <<>>
    /\ cpc = "type"

\* EpubItem(file_name=...).type
ReadType ==
    /\ cpc = "type"
    /\ mcalls' = Append(mcalls, [op |-> "type", file_name |-> disk.file_name,
                                 result |-> item_type(disk.file_name)])
    /\ cpc' = "typed"
    /\ UNCHANGED <<items, id_html, id_image, id_static, pages, book_title,
                   metadata, spine, guide, toc, zip, zipOpen, pc, wi, calls,
                   disk, chapters>>

NextType == ReadType

SpecType == InitType /\ [][NextType]_vars

\* the table as the specification lists it
ListedType(ext) ==
    CASE ext = ".css" -> "STYLE"
      [] ext = ".svg" -> "VECTOR"
      [] ext = ".js" -> "SCRIPT"
      [] ext = ".ncx" -> "NAVIGATION"
      [] ext = ".smil" -> "SMIL"
      [] ext \in {".otf", ".woff", ".ttf"} -> "FONT"
      [] ext \in {".mov", ".mp4", ".avi"} -> "VIDEO"
      [] ext \in {".mp3", ".ogg"} -> "AUDIO"
      [] ext \in {".jpg", ".jpeg", ".gif", ".tiff", ".tif", ".png"} -> "listed"
      [] OTHER -> "UNKNOWN"

\* C21: the type read from an item follows the table for every listed
\* suffix (.css stylesheet, .svg vector, .js script, .ncx navigation-control,
\* .smil synchronized-media, .otf/.woff/.ttf font, .mov/.mp4/.avi video,
\* .mp3/.ogg audio), and an extension that is not in the table gives
\* unknown.
TypeFollowsTable ==
    \A i \in 1..Len(mcalls) :
        mcalls[i].op = "type" =>
           LET ext == Str(SplitextExt(mcalls[i].file_name))
           IN  ListedType(ext) # "listed" =>
                  mcalls[i].result = ListedType(ext)

(***************************************************************************)
(* The metadata block of the package document: the registry filled by      *)
(* add_metadata, then the write pass.                                      *)
(***************************************************************************)
MaxMeta == 2

OpfNamespaces == {"OPF", "DC", None}

OpfNames == {"meta", "bad name"}

OpfValues == {"a", "", "\f"}

OpfOthers ==
    { NoOthers,
      [id |-> "x"],
      [k \in {"bad name"} |-> "x"],
      [property |-> DCTERMS_MODIFIED] }

\* add_metadata(namespace, name, value, others)
AddMetadataWith(ns, name, value, others) ==
    /\ pc = "build"
    /\ Len(mcalls) < MaxMeta
    /\ metadata' = add_metadata(metadata, ns, name, value, others)
    /\ mcalls' = Append(mcalls, MCall("add_metadata", ns, name, value,
                                      others, FALSE, <<>>))
    /\ MetaFrame

NextOpf ==
    \/ \E ns \in OpfNamespaces, name \in OpfNames, value \in OpfValues,
          others \in OpfOthers : AddMetadataWith(ns, name, value, others)
    \/ AddItem(StyleNav)
    \/ Writer

SpecOpf == Init /\ [][NextOpf]_vars

\* the element of an entry can be constructed from its value and attributes
Constructible(ns, name, v) ==
    /\ ns = NS_OPF => v[2] # NoOthers
    /\ ns # NS_OPF => name \notin InvalidNames
    /\ ~AttribRaises(v[2])
    /\ v[1] \notin InvalidTexts

RECURSIVE ClaimedMetaElements(_, _, _)
\* an entry that can be constructed gives its element, any other entry none
\* (a package-internal entry marked dcterms:modified is left out by design)
ClaimedMetaElements(ns, name, vs) ==
    IF vs = <<>> THEN <<>>
    ELSE (IF Constructible(ns, name, Head(vs))
          THEN MetaElements(ns, name, Head(vs))
          ELSE <<>>)
         \o ClaimedMetaElements(ns, name, Tail(vs))

IsOpfEntry(e) == e.name = FOLDER_NAME \o "/content.opf"

\* C22: while the metadata block is written, a registered entry whose
\* element cannot be constructed from its value and attribute map (an entry
\* of the package-internal namespace stored with no attribute map included)
\* is skipped as a single entry: it contributes no element, every other
\* entry is emitted, and write() goes on without raising.
MetadataFailuresSkipped ==
    /\ pc \notin {"raised", "failed"}
    /\ \A p \in 1..Len(zip) :
          IsOpfEntry(zip[p]) =>
             \A ns \in DOMAIN metadata :
                \A name \in DOMAIN metadata[ns] :
                   zip[p].content.metadata[ns][name]
                      = ClaimedMetaElements(ns, name, metadata[ns][name])

(***************************************************************************)
(* The ids of the NCX navigation points.                                   *)
(***************************************************************************)
RECURSIVE PreOrder(_, _)
\* the navigation points in traversal order, each with whether its TOC
\* entry references a document
PreOrder(nodes, nps) ==
    LET r == Rendered(nodes)
    IN  IF nps = <<>> \/ r = <<>> THEN <<>>
        ELSE LET n == Head(r)
                 isDoc == IF n.t = "tuple" THEN n.head.t = "EpubHtml"
                          ELSE n.t = "EpubHtml"
                 docId == IF n.t = "tuple" THEN n.head.uid ELSE n.uid
             IN  <<[doc |-> isDoc, docId |-> docId, id |-> Head(nps).id]>>
                 \o PreOrder(IF n.t = "tuple" THEN n.kids ELSE <<>>,
                             Head(nps).kids)
                 \o PreOrder(Tail(r), Tail(nps))

SepIds == { "sep_" \o ToString(k) : k \in 0..MaxNodes }

SepNum(id) == CHOOSE k \in 0..MaxNodes : id = "sep_" \o ToString(k)

IdsAsClaimed(pts) ==
    /\ \A i \in 1..Len(pts) : pts[i].doc => pts[i].id = pts[i].docId
    /\ \A i \in 1..Len(pts) : ~pts[i].doc => pts[i].id \in SepIds
    /\ \A i, j \in 1..Len(pts) :
          /\ ~pts[i].doc /\ ~pts[j].doc /\ i < j
          /\ pts[i].id \in SepIds /\ pts[j].id \in SepIds
          => SepNum(pts[i].id) < SepNum(pts[j].id)
    /\ \A i, j \in 1..Len(pts) :
          ~pts[i].doc /\ ~pts[j].doc /\ i # j => pts[i].id # pts[j].id

\* C23: in the NCX of any TOC tree a navigation point that references a
\* document has that document's id, and every other navigation point (a
\* link leaf, a section whose heading is a link or a bare title) has a
\* synthetic id built from a separator counter that strictly increases in
\* traversal order, so that no two of them share an id.
NcxIdsAsClaimed ==
    \A p \in 1..Len(zip) :
        EntryOfNcx(zip[p]) =>
            IdsAsClaimed(PreOrder(toc, zip[p].content.navMap))

(***************************************************************************)
(* _split_chapters and the text it is given.                               *)
(***************************************************************************)
RECURSIVE Concat(_)
\* ''.join(segments)
Concat(segs) == IF segs = <<>> THEN <<>> ELSE Head(segs) \o Concat(Tail(segs))

\* C24: _split_chapters loses no input: for every text, one with content
\* before its first heading line and one with no heading line included, the
\* generator completes without raising and the yielded segments, joined in
\* order, are the text.
SplitLosesNothing ==
    /\ cpc # "split_raised"
    /\ cpc = "split_done" => Concat(chapters) = disk.text

====
